---- MODULE Spec2Model ----
(***************************************************************************)
(* Model of the chat-bot bridge of streamchatbackend/src/agents/openai:     *)
(* OpenAIAgent (the streaming generation, its tool-call rounds, stop and    *)
(* dispose) and the search helper of OpenAIResposnseHandler.                *)
(*                                                                         *)
(* JavaScript runs one handler at a time and suspends only at an await, so  *)
(* every action below is the code between two awaits of one handler. The    *)
(* request of an awaited call (sendEvent, sendMessage, partialUpdateMessage)*)
(* is issued when the call is evaluated, before the handler suspends.       *)
(* Texts are sequences of one-letter strings.                               *)
(***************************************************************************)
EXTENDS Integers, Sequences, FiniteSets, Bags, TLC

\* ------------------------------------------------------------------ bounds
MaxMsgs == 1          \* handleMessage invocations that start a generation
MaxRounds == 1        \* tool-call rounds of one message
MaxTextLen == 2       \* text-delta chunks of a text-only stream
MaxTicks == 2         \* clock advances
MaxDispose == 2       \* calls of dispose
MaxHandlerCalls == 2  \* stop events, stream errors and dispose calls of the handler, each
MaxStreamEvents == 2  \* assistant stream events given to the handler
PrefillTurns == 20    \* turns already in the history of a long-running agent
Epoch == 5000         \* Date.now() at construction (ms)

\* ------------------------------------------------------- program constants
FlushIntervalMs == 1000   \* OpenAIAgent.ts:196
HistoryLimit == 21        \* OpenAIAgent.ts:118
HistoryWindow == 20       \* OpenAIAgent.ts:121

VARIABLES
    openai,                   \* this.openai is set
    handlersOn,               \* message.new / ai_indicator.stop handlers registered
    conversationHistory,      \* this.conversationHistory
    activeStreamControllers,  \* this.activeStreamControllers
    aborted,                  \* controllers whose signal is aborted
    stopped,                  \* messages whose active generation a stop event aborted
    messages,                 \* the message store: id -> [text, writes]
    events,                   \* bag of the events sent with channel.sendEvent
    tasks,                    \* the handleMessage invocations and their locals
    started,                  \* number of handleMessage invocations past the guards
    now,                      \* Date.now()
    disposeCalls,             \* calls of dispose so far
    disposePending,           \* dispose calls suspended at disconnectUser
    tavilyKey,                \* process.env.TAVILY_API_KEY is configured
    thrown,                   \* errors raised to the caller of a handler
    lastPrompt,               \* the system prompt most recently set
    turnCount,                \* turns appended to the history so far
    handler                   \* the fields of one OpenAIResposnseHandler and its world

vars == <<openai, handlersOn, conversationHistory, activeStreamControllers, aborted, stopped,
          messages, events, tasks, started, now, disposeCalls, disposePending,
          tavilyKey, thrown, lastPrompt, turnCount, handler>>

Tasks == 1 .. MaxMsgs
Cid == "channel"

\* -------------------------------------------------------------------- text
RECURSIVE Flatten(_)
Flatten(ss) == IF ss = <<>> THEN <<>> ELSE Head(ss) \o Flatten(Tail(ss))

Last(s) == s[Len(s)]

\* s.slice(-k)
SliceLast(s, k) ==
    IF Len(s) <= k THEN s ELSE SubSeq(s, Len(s) - k + 1, Len(s))

\* ------------------------------------------------------------------ chunks
TextChunk(c) == [content |-> c, tool_calls |-> <<>>, finish_reason |-> "none"]
ToolChunk(fs) == [content |-> <<>>, tool_calls |-> fs, finish_reason |-> "none"]
FinishChunk(r) == [content |-> <<>>, tool_calls |-> <<>>, finish_reason |-> r]
Frag(i, id, n, a) == [index |-> i, id |-> id, name |-> n, arguments |-> a]

Letters == {<<"a">>, <<"b">>}

\* every stream of at most MaxTextLen text deltas, with or without a final
\* finish_reason "stop" chunk
TextOnly == UNION {[1 .. k -> {TextChunk(c) : c \in Letters}] : k \in 0 .. MaxTextLen}
TextStreams == TextOnly \cup {s \o <<FinishChunk("stop")>> : s \in {x \in TextOnly : Len(x) = 1}}

WebSearch == <<"w", "s">>       \* the tool name "web_search"
ValidJson == {<<"x", "y">>}     \* the argument texts JSON.parse accepts

ToolStreams ==
    { \* one call, index 0, split over three chunks
      << ToolChunk(<<Frag(0, "c0", <<"w">>, <<"x">>)>>),
         ToolChunk(<<Frag(0, "", <<"s">>, <<>>)>>),
         ToolChunk(<<Frag(0, "", <<>>, <<"y">>)>>),
         FinishChunk("tool_calls") >>,
      \* two calls with interleaved indices; the second has malformed arguments
      << ToolChunk(<<Frag(0, "c0", <<"w">>, <<"x">>), Frag(1, "c1", <<"w">>, <<"y">>)>>),
         ToolChunk(<<Frag(1, "", <<"s">>, <<"x">>)>>),
         ToolChunk(<<Frag(0, "", <<"s">>, <<"y">>)>>),
         FinishChunk("tool_calls") >>,
      \* text, then a call of another tool
      << TextChunk(<<"a">>),
         ToolChunk(<<Frag(0, "c0", <<"o">>, <<"x">>)>>),
         FinishChunk("tool_calls") >>,
      \* index 1 without index 0: a hole in pendingToolCalls
      << ToolChunk(<<Frag(1, "c1", <<"w">>, <<"x">>)>>),
         FinishChunk("tool_calls") >>,
      \* finish_reason "tool_calls" with no tool call collected
      << TextChunk(<<"b">>), FinishChunk("tool_calls") >> }

Streams == TextStreams \cup ToolStreams

\* concatenation of the delta.content values of a stream
ContentOf(stream) == Flatten([i \in 1 .. Len(stream) |-> stream[i].content])

\* all tool-call fragments of a stream, in arrival order
FragsOf(stream) == Flatten([i \in 1 .. Len(stream) |-> stream[i].tool_calls])

\* concatenation of field f of the fragments that carry index i
RECURSIVE FragConcat(_, _, _)
FragConcat(fs, i, f) ==
    IF fs = <<>> THEN <<>>
    ELSE (IF Head(fs).index = i THEN Head(fs)[f] ELSE <<>>) \o FragConcat(Tail(fs), i, f)

\* ----------------------------------------------------------------- history
\* getWritingAssistantPrompt(context): the prompt text, which varies only in
\* its writing context ("General writing assistance." when none is given)
getWritingAssistantPrompt(context) ==
    <<"P">> \o (IF context = <<>> THEN <<"G">> ELSE context)

\* a turn. n and gen are the identity of the turn object: its insertion
\* number (0 for the system prompt) and the placeholder message of the
\* generation that appended it (0 when no generation did)
Turn(role, content, calls, callId, n, gen) ==
    [role |-> role, content |-> content, tool_calls |-> calls, tool_call_id |-> callId,
     n |-> n, gen |-> gen]

SystemTurn(context) == Turn("system", getWritingAssistantPrompt(context), <<>>, "", 0, 0)
UserTurn(text, n) == Turn("user", text, <<>>, "", n, 0)
AssistantTurn(text, n) == Turn("assistant", text, <<>>, "", n, 0)

\* the history of an agent that has already answered earlier messages
PrefilledHistory ==
    <<SystemTurn(<<>>)>> \o
    [i \in 1 .. PrefillTurns |->
        IF i % 2 = 1 THEN UserTurn(<<"u">>, i) ELSE AssistantTurn(<<"a">>, i)]

\* a slip of line 121: the first 20 turns are kept, not the last
TrimHistoryKeepsOldest(h) ==
    IF Len(h) > HistoryLimit
    THEN SubSeq(h, 1, HistoryLimit)
    ELSE h

\* handleMessage, lines 117-123: keep element 0 and the last 20
TrimHistory(h) ==
    IF Len(h) > HistoryLimit
    THEN <<h[1]>> \o SliceLast(h, HistoryWindow)
    ELSE h

\* handleMessage, lines 103-123: the history after an accepted message
AcceptMessage(h, text, writingTask, n) ==
    LET h1 == IF writingTask # <<>>
              THEN [h EXCEPT ![1] = SystemTurn(<<"W">> \o writingTask)]
              ELSE h
    IN  TrimHistory(Append(h1, UserTurn(text, n)))

\* ------------------------------------------------------------------ errors
NoError == [name |-> "none", hasMessage |-> FALSE, message |-> <<>>]
AbortError == [name |-> "AbortError", hasMessage |-> TRUE, message |-> <<"A">>]
TypeError == [name |-> "TypeError", hasMessage |-> TRUE, message |-> <<"T">>]
\* what the model API can throw: an error with a message, and one without
ApiErrors == {[name |-> "Error", hasMessage |-> TRUE, message |-> <<"E">>],
              [name |-> "Error", hasMessage |-> FALSE, message |-> <<>>]}

DefaultErrorText == <<"D">>   \* "Error generating the message"

\* a slip of line 327: the generic text whatever the error
ErrorTextGeneric(error) == DefaultErrorText

\* handleStreamError, line 327: error.message ?? "Error generating the message"
ErrorText(error) == IF error.hasMessage THEN error.message ELSE DefaultErrorText

\* ------------------------------------------------------------------ events
Indicator(state, mid, from) ==
    [type |-> "ai_indicator.update", ai_state |-> state, cid |-> Cid,
     message_id |-> mid, from |-> from]
Clear(mid, from) ==
    [type |-> "ai_indicator.clear", ai_state |-> "", cid |-> Cid,
     message_id |-> mid, from |-> from]

Emit(bag, e) == bag (+) SetToBag({e})
Count(e) == CopiesIn(e, events)

ErrorCount(mid) == Count(Indicator("AI_STATE_ERROR", mid, "handleStreamError"))

\* ------------------------------------------------------------------- tasks
IdleTask ==
    [pc |-> "idle", id |-> 0, mid |-> 0, round |-> 0, ctrls |-> <<>>,
     stream |-> <<>>, pos |-> 0, chunk |-> FinishChunk("none"),
     messageText |-> <<>>, lastUpdateTime |-> 0, pendingToolCalls |-> <<>>,
     toolIdx |-> 0, toolResults |-> <<>>, error |-> NoError,
     flushes |-> 0, streamStart |-> 0, lastFragment |-> 0, outcome |-> "none"]

Controller(t, round) == <<t, round>>

\* a.filter(c => c !== x) for every x of xs
Without(a, xs) == SelectSeq(a, LAMBDA c : \A i \in 1 .. Len(xs) : xs[i] # c)
SeqSet(a) == {a[i] : i \in 1 .. Len(a)}

\* ---------------------------------------------------- OpenAIResposnseHandler
\* OpenAIResponseHandler.ts, lines 5-22: the fields after construction, the
\* registration of the stop handler, and what the handler has sent so far.
\* stops and errs hold the invocations of handleStopGenerating and
\* handleStreamError that are suspended at an await.
HandlerMessageId == "m1"

NewHandler ==
    [message_text |-> <<>>, chunk_counter |-> 0, run_id |-> "", is_done |-> FALSE,
     last_update_time |-> 0,
     listening |-> TRUE,          \* chatClient.on("ai_indicator.stop", ...)
     stops |-> EmptyBag,          \* suspended at "cancel" or at "clear"
     errs |-> EmptyBag,           \* [at |-> "event" or "update", error |-> ...]
     sent |-> EmptyBag,           \* events sent with channel.sendEvent
     text |-> <<>>,               \* the text of the message in the store
     cancels |-> 0,               \* calls of runs.cancel
     onDispose |-> 0,             \* calls of the onDispose callback
     stopEvents |-> 0, errorCalls |-> 0, disposeCalls |-> 0, streamEvents |-> 0]

\* -------------------------------------------------------------------- Init
Init ==
    /\ \/ /\ openai = FALSE
          /\ handlersOn = FALSE
          /\ conversationHistory = <<>>
          /\ turnCount = 0
       \/ /\ openai = TRUE
          /\ handlersOn = TRUE
          /\ conversationHistory = PrefilledHistory
          /\ turnCount = PrefillTurns
    /\ lastPrompt = getWritingAssistantPrompt(<<>>)
    /\ activeStreamControllers = <<>>
    /\ aborted = {}
    /\ stopped = {}
    /\ messages = <<>>
    /\ events = EmptyBag
    /\ tasks = [t \in Tasks |-> IdleTask]
    /\ started = 0
    /\ now = Epoch
    /\ disposeCalls = 0
    /\ disposePending = 0
    /\ tavilyKey \in BOOLEAN
    /\ thrown = {}
    /\ handler = NewHandler

\* ------------------------------------------------------------ init, lines 32-54
AgentInit(apiKey) ==
    /\ ~openai
    /\ disposeCalls = 0
    /\ IF ~apiKey
       THEN /\ thrown' = thrown \cup {"Gemini API key is required"}
            /\ UNCHANGED <<openai, handlersOn, conversationHistory, lastPrompt>>
       ELSE /\ openai' = TRUE
            /\ conversationHistory' = <<SystemTurn(<<>>)>>
            /\ lastPrompt' = getWritingAssistantPrompt(<<>>)
            /\ handlersOn' = TRUE
            /\ UNCHANGED thrown
    /\ UNCHANGED <<handler, activeStreamControllers, aborted, stopped, messages, events, tasks,
                   started, now, disposeCalls, disposePending, tavilyKey, turnCount>>

\* ------------------------------------------------- handleMessage, lines 85-128
MessageEvents ==
    [hasMessage : BOOLEAN, ai_generated : BOOLEAN,
     text : {<<>>, <<"u">>}, writingTask : {<<>>, <<"t">>}]

\* a slip of line 91: the ai_generated flag is not looked at
MessageAcceptedEchoes(e) ==
    /\ openai
    /\ e.hasMessage
    /\ e.text # <<>>

\* the guards of lines 86-96
MessageAccepted(e) ==
    /\ openai
    /\ e.hasMessage /\ ~e.ai_generated
    /\ e.text # <<>>

HandleMessage(e) ==
    /\ handlersOn \/ ~openai
    /\ IF ~MessageAccepted(e)
       THEN UNCHANGED <<conversationHistory, lastPrompt, messages, tasks, started,
                        turnCount>>
       ELSE /\ started < MaxMsgs
            /\ started' = started + 1
            /\ conversationHistory' = AcceptMessage(conversationHistory, e.text, e.writingTask,
                                                         turnCount + 1)
            /\ turnCount' = turnCount + 1
            /\ lastPrompt' = IF e.writingTask # <<>>
                             THEN getWritingAssistantPrompt(<<"W">> \o e.writingTask)
                             ELSE lastPrompt
            \* channel.sendMessage({text: "", ai_generated: true}) is issued
            /\ messages' = Append(messages, [text |-> <<>>, writes |-> 0])
            /\ tasks' = [tasks EXCEPT ![started + 1] =
                            [IdleTask EXCEPT !.pc = "sendMessage", !.id = started + 1,
                                              !.mid = Len(messages) + 1]]
    /\ UNCHANGED <<handler, openai, handlersOn, activeStreamControllers, aborted, stopped, events,
                   now, disposeCalls, disposePending, tavilyKey, thrown>>

\* ------------------------------------------ handleStopGenerating, lines 299-315
\* line 300: the stop is acted on
StopActs(mid) == mid # 0 /\ Len(activeStreamControllers) # 0

\* a generation of message mid holds a controller of the active list
GenerationActive(mid) ==
    \E t \in Tasks :
        /\ tasks[t].mid = mid
        /\ SeqSet(tasks[t].ctrls) \cap SeqSet(activeStreamControllers) # {}

StopIds == 0 .. MaxMsgs + 1   \* no id, the ids of the placeholders, an unknown id

\* a slip of line 308: the controllers are aborted and stay in the list
handleStopGeneratingKeepsList(mid, a) ==
    IF ~(mid # 0 /\ Len(a.active) # 0) THEN a
    ELSE [active |-> a.active,
          aborted |-> a.aborted \cup SeqSet(a.active),
          events |-> Emit(a.events, Clear(mid, "handleStopGenerating"))]

\* lines 299-315 on the fields the handler touches: the controllers, the
\* aborted signals and the events sent
handleStopGenerating(mid, a) ==
    IF ~(mid # 0 /\ Len(a.active) # 0) THEN a
    ELSE [active |-> <<>>,
          aborted |-> a.aborted \cup SeqSet(a.active),
          events |-> Emit(a.events, Clear(mid, "handleStopGenerating"))]

HandleStopGenerating(mid) ==
    /\ handlersOn
    /\ LET r == handleStopGenerating(mid, [active |-> activeStreamControllers,
                                           aborted |-> aborted, events |-> events])
       IN  /\ activeStreamControllers' = r.active
           /\ aborted' = r.aborted
           /\ events' = r.events
    /\ stopped' = IF StopActs(mid) /\ GenerationActive(mid)
                  THEN stopped \cup {mid} ELSE stopped
    /\ UNCHANGED <<handler, openai, handlersOn, conversationHistory, messages, tasks, started, now,
                   disposeCalls, disposePending, tavilyKey, thrown, lastPrompt, turnCount>>

\* ------------------------------------------------------- dispose, lines 16-24
\* lines 17-19: both handlers are removed and disconnectUser is awaited
DisposeCall ==
    /\ disposeCalls < MaxDispose
    /\ handlersOn' = FALSE
    /\ disposeCalls' = disposeCalls + 1
    /\ disposePending' = disposePending + 1
    /\ UNCHANGED <<handler, openai, conversationHistory, activeStreamControllers, aborted, stopped,
                   messages, events, tasks, started, now, tavilyKey, thrown, lastPrompt, turnCount>>

\* lines 21-23: after disconnectUser, every active stream is cancelled
DisposeResume ==
    /\ disposePending > 0
    /\ disposePending' = disposePending - 1
    /\ aborted' = aborted \cup SeqSet(activeStreamControllers)
    /\ activeStreamControllers' = <<>>
    /\ UNCHANGED <<handler, openai, handlersOn, conversationHistory, stopped, messages, events,
                   tasks, started, now, disposeCalls, tavilyKey, thrown, lastPrompt, turnCount>>

\* ------------------------------------------------- performWebSearch, 332-379
\* The JSON text returned, as the sequence of its keys and values, given
\* whether the key is configured, whether fetch and the reading of the body
\* resolve, and whether response.ok
NoKeyResult == <<"error", "not available">>
ExceptionResult == <<"error", "exception">>
FailedResult == <<"error", "status", "details", "text">>
DataResult == <<"results", "r">>
ParseFailedResult == <<"error", "failed to perform web search">>

\* the keys of a serialized object
PayloadKeys(text) == {text[i] : i \in {j \in 1 .. Len(text) : j % 2 = 1}}

\* a slip of line 357: response.ok is not looked at
performWebSearchIgnoresStatus(key, transportOk, responseOk) ==
    IF ~key THEN NoKeyResult
    ELSE IF ~transportOk THEN ExceptionResult
    ELSE DataResult

performWebSearch(key, transportOk, responseOk) ==
    IF ~key THEN NoKeyResult
    ELSE IF ~transportOk THEN ExceptionResult
    ELSE IF ~responseOk THEN FailedResult
    ELSE DataResult

\* OpenAIResposnseHandler.performWebSearch, OpenAIResponseHandler.ts lines
\* 126-174: the branch of line 151 is taken when response.ok, and the body of
\* a response that is not ok is parsed and returned
ErrorBodyResult == <<"detail", "d">>

handlerPerformWebSearch(key, transportOk, responseOk) ==
    IF ~key THEN NoKeyResult
    ELSE IF ~transportOk THEN ExceptionResult
    ELSE IF responseOk THEN FailedResult
    ELSE ErrorBodyResult

\* --------------------------------------- the code between two awaits of a task
\* What one handler step reads and writes: its locals and the agent's fields.
World(t) ==
    [task |-> tasks[t], h |-> conversationHistory, ev |-> events, msgs |-> messages,
     active |-> activeStreamControllers, tc |-> turnCount]

\* chatClient.partialUpdateMessage(channelMessage.id, {set: {text}})
Write(w, text) ==
    [w EXCEPT !.msgs[w.task.mid] = [text |-> text, writes |-> @.writes + 1]]

\* channel.sendEvent(e)
SendEvent(w, e) == [w EXCEPT !.ev = Emit(@, e)]

\* conversationHistory.push(turn)
Push(w, role, content, calls, callId) ==
    [w EXCEPT !.h = Append(@, Turn(role, content, calls, callId, w.tc + 1, w.task.mid)),
              !.tc = @ + 1]

RECURSIVE PushResults(_, _)
PushResults(w, rs) ==
    IF rs = <<>> THEN w
    ELSE PushResults(Push(w, "tool", Head(rs).content, <<>>, Head(rs).tool_call_id),
                     Tail(rs))

\* a slip of line 255: the controller stays in the list
FinallyKeepsController(w, outcome) ==
    [w EXCEPT !.task = [IdleTask EXCEPT !.pc = "done", !.id = w.task.id,
                                        !.mid = w.task.mid, !.round = w.task.round,
                                        !.outcome = outcome]]

\* lines 253-256, for this invocation and the invocations it was called from
\* (handleToolCalls -> processMessageWithGemini returns through each of them)
\* The locals of the invocation are dead once it has returned.
Finally(w, outcome) ==
    [w EXCEPT !.active = Without(@, w.task.ctrls),
              !.task = [IdleTask EXCEPT !.pc = "done", !.id = w.task.id,
                                        !.mid = w.task.mid, !.round = w.task.round,
                                        !.outcome = outcome]]

\* lines 248-252 and handleStreamError line 318
Catch(w, error) ==
    IF error.name # "AbortError"
    THEN SendEvent([w EXCEPT !.task.pc = "errEvent", !.task.error = error],
                   Indicator("AI_STATE_ERROR", w.task.mid, "handleStreamError"))
    ELSE Finally(w, "cancelled")

\* lines 231-234: the final update with the complete message
FinalUpdate(w) == Write([w EXCEPT !.task.pc = "final"], w.task.messageText)

\* processMessageWithGemini, lines 140-152
BeginGeneration(w) ==
    IF ~openai THEN Finally(w, "uninitialized")
    ELSE LET c == Controller(w.task.id, w.task.round)
         IN  SendEvent([w EXCEPT !.active = Append(@, c),
                                 !.task.ctrls = Append(@, c),
                                 !.task.pc = "generating"],
                       Indicator("AI_STATE_GENERATING", w.task.mid,
                                 "processMessageWithGemini"))

\* ---------------------------------------------------- tool calls, 204-222
EmptySlot == [present |-> FALSE, id |-> "", name |-> <<>>, arguments |-> <<>>]

\* pendingToolCalls[i] = v, where the array grows with holes
SetSlot(pending, i, v) ==
    [k \in 1 .. (IF i + 1 > Len(pending) THEN i + 1 ELSE Len(pending)) |->
        IF k = i + 1 THEN v
        ELSE IF k <= Len(pending) THEN pending[k] ELSE EmptySlot]

SlotAt(pending, i) == IF i + 1 <= Len(pending) THEN pending[i + 1] ELSE EmptySlot

\* a slip of lines 215-220: = for +=
MergeFragmentAssigns(pending, f) ==
    LET cur == SlotAt(pending, f.index)
        slot == IF cur.present THEN cur
                ELSE [present |-> TRUE, id |-> f.id, name |-> <<>>, arguments |-> <<>>]
    IN  SetSlot(pending, f.index,
                [slot EXCEPT !.name = IF f.name # <<>> THEN f.name ELSE @,
                             !.arguments = IF f.arguments # <<>> THEN f.arguments ELSE @])

\* lines 207-220 for one toolCall of delta.tool_calls
MergeFragment(pending, f) ==
    LET cur == SlotAt(pending, f.index)
        slot == IF cur.present THEN cur
                ELSE [present |-> TRUE, id |-> f.id, name |-> <<>>, arguments |-> <<>>]
    IN  SetSlot(pending, f.index,
                [slot EXCEPT !.name = @ \o f.name, !.arguments = @ \o f.arguments])

RECURSIVE MergeToolCalls(_, _)
MergeToolCalls(pending, fs) ==
    IF fs = <<>> THEN pending
    ELSE MergeToolCalls(MergeFragment(pending, Head(fs)), Tail(fs))

\* ------------------------------------------------- handleToolCalls, 259-297
\* lines 270-297 from toolCalls[toolIdx] on, up to the next await
RECURSIVE ToolLoop(_)
ToolLoop(w) ==
    LET tk == w.task
        next(result) ==
            [w EXCEPT !.task.toolIdx = @ + 1,
                      !.task.toolResults =
                          Append(@, [tool_call_id |-> tk.pendingToolCalls[tk.toolIdx].id,
                                     content |-> result])]
    IN  IF tk.toolIdx > Len(tk.pendingToolCalls)
        THEN BeginGeneration([PushResults(w, tk.toolResults)
                                 EXCEPT !.task.round = @ + 1])
        ELSE LET call == tk.pendingToolCalls[tk.toolIdx]
             IN  IF ~call.present
                 THEN \* toolCall is undefined: toolCall.function throws a TypeError,
                      \* caught by the processMessageWithGemini that awaits this call
                      Catch(w, TypeError)
                 ELSE IF call.name # WebSearch
                 THEN ToolLoop([w EXCEPT !.task.toolIdx = @ + 1])
                 ELSE IF call.arguments \notin ValidJson
                 THEN ToolLoop(next(ParseFailedResult))
                 ELSE IF ~tavilyKey
                 THEN ToolLoop(next(performWebSearch(FALSE, TRUE, TRUE)))
                 ELSE [w EXCEPT !.task.pc = "search"]

\* lines 259-268
handleToolCalls(w) ==
    IF ~openai THEN Finally(w, "uninitialized")
    ELSE ToolLoop([Push(w, "assistant", <<>>, w.task.pendingToolCalls, "")
                      EXCEPT !.task.toolIdx = 1, !.task.toolResults = <<>>])

\* ------------------------------------------ the body of the for-await loop
\* a slip of line 192: the delta replaces the text
AppendDeltaReplaces(messageText, content) == content

\* line 192
AppendDelta(messageText, content) == messageText \o content

\* a slip of line 196: >= for >
ShouldFlushAtInterval(time, lastUpdateTime) == time - lastUpdateTime >= FlushIntervalMs

\* line 196
ShouldFlush(time, lastUpdateTime) == time - lastUpdateTime > FlushIntervalMs

\* lines 204-229, after the text of the chunk is handled
AfterContent(w, chunk) ==
    LET w1 == [w EXCEPT !.task.pendingToolCalls = MergeToolCalls(@, chunk.tool_calls)]
    IN  IF chunk.finish_reason = "tool_calls" /\ Len(w1.task.pendingToolCalls) > 0
        THEN handleToolCalls(w1)
        ELSE [w1 EXCEPT !.task.pc = "pull"]

\* lines 187-202
ProcessChunk(w, chunk, isAborted) ==
    IF isAborted THEN FinalUpdate(w)
    ELSE IF chunk.content # <<>>
    THEN LET w1 == [w EXCEPT !.task.messageText = AppendDelta(@, chunk.content)]
         IN  IF ShouldFlush(now, w1.task.lastUpdateTime)
             THEN Write([w1 EXCEPT !.task.pc = "flush",
                                   !.task.chunk = chunk,
                                   !.task.lastUpdateTime = now,
                                   !.task.flushes = @ + 1],
                        w1.task.messageText)
             ELSE AfterContent(w1, chunk)
    ELSE AfterContent(w, chunk)

\* --------------------------------------------------------- the task's steps
\* the step of task t ends in world w
Apply(t, w) ==
    /\ tasks' = [tasks EXCEPT ![t] = w.task]
    /\ conversationHistory' = w.h
    /\ events' = w.ev
    /\ messages' = w.msgs
    /\ activeStreamControllers' = w.active
    /\ turnCount' = w.tc
    /\ UNCHANGED <<handler, openai, handlersOn, aborted, stopped, started, now, disposeCalls,
                   disposePending, tavilyKey, thrown, lastPrompt>>

IsAborted(t) ==
    /\ tasks[t].ctrls # <<>>
    /\ Last(tasks[t].ctrls) \in aborted

\* handleMessage, lines 125-135: sendMessage returned, THINKING is sent
SendThinking(t) ==
    /\ tasks[t].pc = "sendMessage"
    /\ Apply(t, SendEvent([World(t) EXCEPT !.task.pc = "thinking"],
                          Indicator("AI_STATE_THINKING", tasks[t].mid, "handleMessage")))

\* handleMessage line 137 and processMessageWithGemini lines 140-152
StartGeneration(t) ==
    /\ tasks[t].pc = "thinking"
    /\ Apply(t, BeginGeneration(World(t)))

\* lines 154-180: the completion is requested with the controller's signal
CallCreate(t) ==
    /\ tasks[t].pc = "generating"
    /\ Apply(t, [World(t) EXCEPT !.task.pc = "create"])

\* the streams the model may answer with in this round (the rounds of a
\* message are bounded: the last one brings no tool call)
StreamsOf(t) == IF tasks[t].round >= MaxRounds THEN TextStreams ELSE Streams

\* lines 154-184: create resolves with a stream
CreateReturns(t, stream) ==
    /\ tasks[t].pc = "create"
    /\ ~IsAborted(t)
    /\ stream \in StreamsOf(t)
    /\ Apply(t, [World(t) EXCEPT !.task.pc = "pull",
                                 !.task.stream = stream,
                                 !.task.pos = 0,
                                 !.task.messageText = <<>>,
                                 !.task.lastUpdateTime = 0,
                                 !.task.pendingToolCalls = <<>>,
                                 !.task.toolIdx = 0,
                                 !.task.toolResults = <<>>,
                                 !.task.flushes = 0,
                                 !.task.streamStart = now,
                                 !.task.lastFragment = now])

\* create rejects: with the abort error when the signal is aborted, with an
\* API error otherwise
CreateThrows(t, error) ==
    /\ tasks[t].pc = "create"
    /\ IF IsAborted(t) THEN error = AbortError ELSE error \in ApiErrors
    /\ Apply(t, Catch(World(t), error))

\* line 186: the stream yields its next chunk (also one that was already
\* received when the signal was aborted)
ChunkArrives(t) ==
    /\ tasks[t].pc = "pull"
    /\ tasks[t].pos < Len(tasks[t].stream)
    /\ LET chunk == tasks[t].stream[tasks[t].pos + 1]
       IN  Apply(t, ProcessChunk([World(t) EXCEPT !.task.pos = @ + 1,
                                                  !.task.lastFragment = now],
                                 chunk, IsAborted(t)))

\* line 186: the stream is exhausted (an aborted stream may end early)
StreamEnds(t) ==
    /\ tasks[t].pc = "pull"
    /\ tasks[t].pos = Len(tasks[t].stream) \/ IsAborted(t)
    /\ Apply(t, FinalUpdate(World(t)))

\* line 186: the stream throws
StreamThrows(t, error) ==
    /\ tasks[t].pc = "pull"
    /\ error \in ApiErrors \/ (IsAborted(t) /\ error = AbortError)
    /\ Apply(t, Catch(World(t), error))

\* lines 197-229: the partial update returned
FlushDone(t) ==
    /\ tasks[t].pc = "flush"
    /\ Apply(t, AfterContent(World(t), tasks[t].chunk))

\* lines 274-280: performWebSearch returned
SearchReturns(t, transportOk, responseOk) ==
    /\ tasks[t].pc = "search"
    /\ LET tk == tasks[t]
           result == [tool_call_id |-> tk.pendingToolCalls[tk.toolIdx].id,
                      content |-> performWebSearch(tavilyKey, transportOk, responseOk)]
       IN  Apply(t, ToolLoop([World(t) EXCEPT !.task.toolIdx = @ + 1,
                                              !.task.toolResults = Append(@, result)]))

\* lines 236-246: the final update returned
FinalDone(t) ==
    /\ tasks[t].pc = "final"
    /\ Apply(t, SendEvent([Push(World(t), "assistant", tasks[t].messageText, <<>>, "")
                              EXCEPT !.task.pc = "clear"],
                          Clear(tasks[t].mid, "processMessageWithGemini")))

\* lines 246-256: the clear event returned
ClearDone(t) ==
    /\ tasks[t].pc = "clear"
    /\ Apply(t, Finally(World(t), "completed"))

\* handleStreamError, lines 318-329: the ERROR event returned
ErrorEventDone(t) ==
    /\ tasks[t].pc = "errEvent"
    /\ Apply(t, Write([World(t) EXCEPT !.task.pc = "errUpdate"],
                      ErrorText(tasks[t].error)))

\* handleStreamError returned, then lines 253-256
ErrorUpdateDone(t) ==
    /\ tasks[t].pc = "errUpdate"
    /\ Apply(t, Finally(World(t), "errored"))

\* ------------------------------------------------------------------- clock
TickSteps == {1, FlushIntervalMs}
TicksUsed == ((now - Epoch) \div FlushIntervalMs) + ((now - Epoch) % FlushIntervalMs)

\* Date.now() advances. It is read at line 193 only, for a chunk with text, so
\* only the time that passes while such a chunk is awaited is observable.
Tick(d) ==
    /\ \E t \in Tasks :
          /\ tasks[t].pc = "pull"
          /\ tasks[t].pos < Len(tasks[t].stream)
          /\ tasks[t].stream[tasks[t].pos + 1].content # <<>>
    /\ TicksUsed < MaxTicks
    /\ now' = now + d
    /\ UNCHANGED <<handler, openai, handlersOn, conversationHistory, activeStreamControllers,
                   aborted, stopped, messages, events, tasks, started, disposeCalls,
                   disposePending, tavilyKey, thrown, lastPrompt, turnCount>>

\* -------------------------------------------------------------------- Next
\* the steps of the suspended handleMessage invocations
TaskNext ==
    \E t \in Tasks :
        \/ SendThinking(t)
        \/ StartGeneration(t)
        \/ CallCreate(t)
        \/ \E s \in Streams : CreateReturns(t, s)
        \/ \E x \in ApiErrors \cup {AbortError} : CreateThrows(t, x)
        \/ ChunkArrives(t)
        \/ StreamEnds(t)
        \/ \E x \in ApiErrors \cup {AbortError} : StreamThrows(t, x)
        \/ FlushDone(t)
        \/ \E a, b \in BOOLEAN : SearchReturns(t, a, b)
        \/ FinalDone(t)
        \/ ClearDone(t)
        \/ ErrorEventDone(t)
        \/ ErrorUpdateDone(t)

\* The agent and its environment: messages, stop events and dispose arrive at
\* any await. All of it happens within one millisecond of the clock.
Next ==
    \/ \E k \in BOOLEAN : AgentInit(k)
    \/ \E e \in MessageEvents : HandleMessage(e)
    \/ \E m \in StopIds : HandleStopGenerating(m)
    \/ DisposeCall
    \/ DisposeResume
    \/ TaskNext

Spec == Init /\ [][Next]_vars

\* The generations of an initialized agent while time passes between the
\* chunks, with no stop event and no dispose.
InitTimed == Init /\ openai

NextTimed ==
    \/ \E e \in MessageEvents : HandleMessage(e)
    \/ \E d \in TickSteps : Tick(d)
    \/ TaskNext

SpecTimed == InitTimed /\ [][NextTimed]_vars

\* ------------------------------------ OpenAIResposnseHandler, the handlers
AgentVars ==
    <<openai, handlersOn, conversationHistory, activeStreamControllers, aborted, stopped,
      messages, events, tasks, started, now, disposeCalls, disposePending,
      tavilyKey, thrown, lastPrompt, turnCount>>

Remove(bag, e) == bag (-) SetToBag({e})

\* dispose, lines 25-33: it runs to its end without suspending
handlerDispose(h) ==
    IF h.is_done THEN h
    ELSE [h EXCEPT !.is_done = TRUE, !.listening = FALSE, !.onDispose = @ + 1]

\* dispose is called from outside
HandlerDispose ==
    /\ handler.disposeCalls < MaxHandlerCalls
    /\ handler' = handlerDispose([handler EXCEPT !.disposeCalls = @ + 1])
    /\ UNCHANGED AgentVars

HandlerStopIds == {"", HandlerMessageId, "m2"}

\* handleStopGenerating, lines 35-48: the guards, then runs.cancel is awaited
\* (openai and openAiThread are set by the constructor)
HandlerStop(mid) ==
    /\ handler.listening
    /\ handler.stopEvents < MaxHandlerCalls
    /\ LET h == [handler EXCEPT !.stopEvents = @ + 1]
       IN  handler' =
             IF h.is_done \/ mid # HandlerMessageId THEN h
             ELSE IF h.run_id = "" THEN h
             ELSE [h EXCEPT !.cancels = @ + 1, !.stops = Emit(@, "cancel")]
    /\ UNCHANGED AgentVars

\* lines 44-58: runs.cancel resolved, or rejected and the error was logged;
\* ai_indicator.clear is sent
HandlerCancelSettles ==
    /\ BagIn("cancel", handler.stops)
    /\ handler' = [handler EXCEPT
                      !.stops = Emit(Remove(@, "cancel"), "clear"),
                      !.sent = Emit(@, Clear(HandlerMessageId, "handler.handleStopGenerating"))]
    /\ UNCHANGED AgentVars

\* line 59: sendEvent returned, dispose is called
HandlerClearSent ==
    /\ BagIn("clear", handler.stops)
    /\ handler' = handlerDispose([handler EXCEPT !.stops = Remove(@, "clear")])
    /\ UNCHANGED AgentVars

\* handleStreamError, lines 107-116
HandlerStreamError(error) ==
    /\ handler.errorCalls < MaxHandlerCalls
    /\ LET h == [handler EXCEPT !.errorCalls = @ + 1]
       IN  handler' =
             IF h.is_done THEN h
             ELSE [h EXCEPT
                     !.errs = Emit(@, [at |-> "event", error |-> error]),
                     !.sent = Emit(@, Indicator("AI_STATE_ERROR", HandlerMessageId,
                                                "handler.handleStreamError"))]
    /\ UNCHANGED AgentVars

\* lines 117-122: the ERROR event returned, the error text is written
\* (error.message ?? "ErrorGenerating The Message")
HandlerErrorEventSent(error) ==
    /\ BagIn([at |-> "event", error |-> error], handler.errs)
    /\ handler' = [handler EXCEPT
                      !.errs = Emit(Remove(@, [at |-> "event", error |-> error]),
                                    [at |-> "update", error |-> error]),
                      !.text = ErrorText(error)]
    /\ UNCHANGED AgentVars

\* line 123: the update returned, dispose is called
HandlerErrorUpdated(error) ==
    /\ BagIn([at |-> "update", error |-> error], handler.errs)
    /\ handler' = handlerDispose([handler EXCEPT
                                     !.errs = Remove(@, [at |-> "update", error |-> error])])
    /\ UNCHANGED AgentVars

StreamEventKinds ==
    {"thread.run.created", "thread.message.delta", "thread.message.completed",
     "thread.run.step.created"}

\* handleStreamEvent, lines 62-105: none of its calls is awaited
handleStreamEvent(h, kind, delta) ==
    IF kind = "thread.run.created" THEN [h EXCEPT !.run_id = "r"]
    ELSE IF kind = "thread.message.delta"
    THEN IF delta = <<>> THEN h
         ELSE LET h1 == [h EXCEPT !.message_text = @ \o delta, !.chunk_counter = @ + 1]
              IN  IF now - h.last_update_time > FlushIntervalMs
                  THEN [h1 EXCEPT !.text = h1.message_text, !.last_update_time = now]
                  ELSE h1
    ELSE IF kind = "thread.message.completed"
    THEN [h EXCEPT !.text = IF delta # <<>> THEN delta ELSE h.message_text,
                   !.sent = Emit(@, Clear(HandlerMessageId, "handler.handleStreamEvent"))]
    ELSE [h EXCEPT !.sent = Emit(@, Indicator("AI_STATE_GENERATING", HandlerMessageId,
                                              "handler.handleStreamEvent"))]

HandlerStreamEvent(kind, delta) ==
    /\ handler.streamEvents < MaxStreamEvents
    /\ handler' = handleStreamEvent([handler EXCEPT !.streamEvents = @ + 1], kind, delta)
    /\ UNCHANGED AgentVars

\* One handler of an initialized agent, its stream, and the stop events,
\* stream errors and dispose calls that reach it at any await.
InitHandler == Init /\ openai /\ tavilyKey

NextHandler ==
    \/ HandlerDispose
    \/ \E m \in HandlerStopIds : HandlerStop(m)
    \/ HandlerCancelSettles
    \/ HandlerClearSent
    \/ \E x \in ApiErrors : HandlerStreamError(x)
    \/ \E x \in ApiErrors : HandlerErrorEventSent(x)
    \/ \E x \in ApiErrors : HandlerErrorUpdated(x)
    \/ \E k \in StreamEventKinds, d \in {<<>>, <<"a">>} : HandlerStreamEvent(k, d)

SpecHandler == InitHandler /\ [][NextHandler]_vars

\* ================================================================== claims
Max(a, b) == IF a >= b THEN a ELSE b
Ceil(a, b) == (a + b - 1) \div b

\* C1: a generation whose stream holds only text deltas and that is neither
\* aborted nor failed leaves, with its final update, the concatenation of all
\* delta.content values in the placeholder message, however the partial
\* flushes fell.
C1_FinalTextIsConcatenation ==
    \A t \in Tasks :
        ( /\ tasks[t].pc \in {"final", "clear"}
          /\ tasks[t].stream \in TextStreams
          /\ ~IsAborted(t) )
        => messages[tasks[t].mid].text = ContentOf(tasks[t].stream)

\* two deltas arrived, only the first was flushed on arrival, and the final
\* update has been sent
C1_Witness ==
    \E t \in Tasks :
        /\ tasks[t].pc = "clear"
        /\ tasks[t].stream = <<TextChunk(<<"a">>), TextChunk(<<"b">>)>>
        /\ tasks[t].flushes = 1
        /\ messages[tasks[t].mid].writes = 2

\* C2: when the model stream throws an error that is not a cancellation,
\* exactly one AI_STATE_ERROR update is sent for the placeholder, the
\* placeholder's text becomes the error's message, and the generation appends
\* no assistant response to the history.
ResponsesOf(mid) ==
    {i \in 1 .. Len(conversationHistory) :
        /\ conversationHistory[i].role = "assistant"
        /\ conversationHistory[i].tool_calls = <<>>
        /\ conversationHistory[i].gen = mid}

C2_StreamErrorIsReported ==
    \A t \in Tasks :
        /\ tasks[t].pc \in {"errEvent", "errUpdate"}
           => /\ ErrorCount(tasks[t].mid) = 1
              /\ ResponsesOf(tasks[t].mid) = {}
        /\ (tasks[t].pc = "errUpdate" /\ tasks[t].error.hasMessage)
           => messages[tasks[t].mid].text = tasks[t].error.message
        /\ (tasks[t].pc = "done" /\ tasks[t].outcome = "errored")
           => /\ ErrorCount(tasks[t].mid) = 1
              /\ ResponsesOf(tasks[t].mid) = {}

\* the stream threw after a chunk was consumed, and the error text is written
C2_Witness ==
    \E t \in Tasks :
        /\ tasks[t].pc = "errUpdate"
        /\ tasks[t].error \in ApiErrors
        /\ tasks[t].error.hasMessage
        /\ tasks[t].pos >= 1

\* C3: a stop event whose message_id matches the placeholder of no active
\* generation changes nothing: no controller is aborted, the active list is
\* unchanged and no event is sent.
C3_UnmatchedStopIsIgnored ==
    [][\A m \in StopIds :
          (HandleStopGenerating(m) /\ ~GenerationActive(m))
          => UNCHANGED <<activeStreamControllers, aborted, events>>]_vars

\* C4: when a stop event is acted on for a message with an active generation,
\* the stop handler sends the only ai_indicator.clear of that message: the
\* generation itself sends none.
C4_StoppedGenerationSendsNoClear ==
    \A m \in stopped : Count(Clear(m, "processMessageWithGemini")) = 0

\* C5: a second call in a row of handleStopGenerating for the same message, or
\* of dispose, sends no ai_indicator.clear or ai_indicator.update and raises
\* nothing: applied to the state a stop call leaves, the stop handler changes
\* nothing, and no step of dispose sends an event or throws.
C5_SecondCallIsNoOp ==
    [][ /\ \A m \in StopIds :
            HandleStopGenerating(m)
            => LET post == [active |-> activeStreamControllers', aborted |-> aborted',
                            events |-> events']
               IN  /\ handleStopGenerating(m, post) = post
                   /\ thrown' = thrown
        /\ (DisposeCall \/ DisposeResume)
            => (events' = events /\ thrown' = thrown) ]_vars

\* a stop was acted on for message 1, whose generation is still suspended: a
\* second stop for message 1 can arrive now
C5_Witness ==
    /\ handlersOn
    /\ Count(Clear(1, "handleStopGenerating")) = 1
    /\ \E t \in Tasks : tasks[t].mid = 1 /\ tasks[t].pc = "pull"
    /\ activeStreamControllers = <<>>

\* C6: once dispose has been called, no event is sent, no message is created
\* or updated and the history is not changed.
C6_DisposedIsAbsorbing ==
    [][disposeCalls > 0
       => UNCHANGED <<events, messages, conversationHistory>>]_vars

\* C7: the history never holds more than 21 turns.
C7_HistoryAtMostLimit == Len(conversationHistory) <= HistoryLimit

\* C8: after init, element 0 of the history is the system turn with the
\* prompt most recently set, the other elements are the most recently
\* appended turns in insertion order, and handleMessage leaves at most 21
\* elements, 21 when it trims.
C8_PromptAndWindow ==
    /\ [](openai =>
            /\ Len(conversationHistory) >= 1
            /\ conversationHistory[1].role = "system"
            /\ conversationHistory[1].content = lastPrompt
            /\ \A i \in 2 .. Len(conversationHistory) :
                   conversationHistory[i].n = turnCount - (Len(conversationHistory) - i))
    /\ [][started' # started
          => /\ Len(conversationHistory') = IF Len(conversationHistory) + 1 > HistoryLimit
                                            THEN HistoryWindow + 1
                                            ELSE Len(conversationHistory) + 1
             /\ Last(conversationHistory').role = "user"]_vars

\* handleMessage has set a new prompt and trimmed the history to 21 turns
C8_Witness ==
    /\ turnCount > HistoryWindow
    /\ Len(conversationHistory) = HistoryLimit
    /\ conversationHistory[2].n = turnCount - (HistoryWindow - 1)
    /\ lastPrompt = getWritingAssistantPrompt(<<"W", "t">>)

\* C9: when handleToolCalls is invoked, the name and the arguments of the slot
\* of each index are the concatenation, in arrival order, of the name and
\* argument fragments that carried that index.
C9_ToolCallsReassembled ==
    \A t \in Tasks :
        tasks[t].toolIdx >= 1
        => LET fs == FragsOf(SubSeq(tasks[t].stream, 1, tasks[t].pos))
               pending == tasks[t].pendingToolCalls
           IN  /\ \A f \in SeqSet(fs) : f.index + 1 <= Len(pending)
               /\ \A i \in 0 .. Len(pending) - 1 :
                    /\ pending[i + 1].present <=> \E f \in SeqSet(fs) : f.index = i
                    /\ pending[i + 1].name = FragConcat(fs, i, "name")
                    /\ pending[i + 1].arguments = FragConcat(fs, i, "arguments")
               /\ \E k \in 1 .. Len(conversationHistory) :
                      conversationHistory[k].tool_calls = pending

\* handleToolCalls runs on two calls whose fragments arrived interleaved
C9_Witness ==
    \E t \in Tasks :
        /\ tasks[t].toolIdx >= 1
        /\ Len(tasks[t].pendingToolCalls) = 2
        /\ tasks[t].pendingToolCalls[1].arguments = <<"x", "y">>
        /\ tasks[t].pendingToolCalls[2].arguments = <<"y", "x">>
        /\ tasks[t].pendingToolCalls[2].name = WebSearch

\* C10 as stated: a generation whose fragments span T ms has issued at most
\* ceil(T / 1000) time-triggered partial flushes.
Duration(t) == tasks[t].lastFragment - tasks[t].streamStart

C10_FlushesAtMostCeil ==
    \A t \in Tasks : tasks[t].flushes <= Ceil(Duration(t), FlushIntervalMs)

\* C10 amended: at most max(1, ceil(T / 1000)) partial flushes, the first text
\* delta being flushed on arrival even when T = 0.
C10_FlushesAtMostCeilOrOne ==
    \A t \in Tasks : tasks[t].flushes <= Max(1, Ceil(Duration(t), FlushIntervalMs))

\* two partial flushes in 1001 ms
C10_Witness ==
    \E t \in Tasks :
        /\ tasks[t].flushes = 2
        /\ Duration(t) = FlushIntervalMs + 1

\* the request of tool result r of task t
RequestOf(t, r) ==
    CHOOSE c \in SeqSet(tasks[t].pendingToolCalls) : c.present /\ c.id = r.tool_call_id

\* no fetch is issued and the result is the {error} payload while no search
\* key is configured
NoKeyNoFetch ==
    ~tavilyKey =>
        \A t \in Tasks :
            /\ tasks[t].pc # "search"
            /\ \A r \in SeqSet(tasks[t].toolResults) :
                   RequestOf(t, r).arguments \in ValidJson
                   => (r.content = NoKeyResult /\ PayloadKeys(r.content) = {"error"})

\* the result that the performWebSearch call of this step returned
SearchResult(t) == tasks'[t].toolResults[Len(tasks[t].toolResults) + 1].content

\* C11 as stated: performWebSearch never throws; it returns an {error}
\* payload without a network call when no key is configured, an
\* {error, details} payload when the transport fails or the response is not
\* ok, and the serialized provider payload when the response is ok.
C11_SearchPayloads ==
    /\ []NoKeyNoFetch
    /\ [][\A t \in Tasks, a, b \in BOOLEAN :
            SearchReturns(t, a, b)
            => /\ thrown' = thrown
               /\ tavilyKey
               /\ IF a /\ b THEN SearchResult(t) = DataResult
                  ELSE PayloadKeys(SearchResult(t)) = {"error", "details"}]_vars

\* C11 amended: as C11, but the payload of a transport failure (fetch or the
\* reading of the body rejects) is {error} alone; only a response that is not
\* ok gives {error, details}.
C11_SearchPayloadsByCase ==
    /\ []NoKeyNoFetch
    /\ [][\A t \in Tasks, a, b \in BOOLEAN :
            SearchReturns(t, a, b)
            => /\ thrown' = thrown
               /\ tavilyKey
               /\ IF ~a THEN PayloadKeys(SearchResult(t)) = {"error"}
                  ELSE IF ~b THEN PayloadKeys(SearchResult(t)) = {"error", "details"}
                  ELSE SearchResult(t) = DataResult]_vars

\* a search got a response that was not ok
C11_Witness ==
    \E t \in Tasks : \E r \in SeqSet(tasks[t].toolResults) :
           tavilyKey /\ r.content = FailedResult

\* the events the agent is to ignore
Ignorable(e) == ~openai \/ ~e.hasMessage \/ e.text = <<>> \/ e.ai_generated

\* C12: handleMessage does nothing when the agent is uninitialized, when the
\* event carries no message or no text, or when the message is flagged
\* ai_generated: no placeholder is created, no event is sent, the history is
\* unchanged and no generation is started.
C12_IgnoredMessageIsNoOp ==
    [][\A e \in MessageEvents :
          (HandleMessage(e) /\ Ignorable(e))
          => UNCHANGED <<messages, events, conversationHistory, lastPrompt, tasks,
                         started, activeStreamControllers, turnCount>>]_vars

\* the placeholder of a message has been created and its generation is
\* suspended: the message.new event of the placeholder itself, flagged
\* ai_generated, arrives now
C12_Witness ==
    /\ handlersOn /\ openai
    /\ Len(messages) = 1
    /\ \E t \in Tasks : tasks[t].pc = "sendMessage"

\* the step is one of task t
StepOf(t) == tasks'[t] # tasks[t]

\* C13: once the controller of a generation is aborted, the generation
\* mutates nothing more: a generation that awaits its next chunk when its
\* controller is aborted issues no further partialUpdateMessage, partial or
\* final, and appends no turn to the history.
C13_AbortedGenerationMutatesNothing ==
    [][\A t \in Tasks :
          (tasks[t].pc = "pull" /\ IsAborted(t) /\ StepOf(t))
          => /\ messages' = messages
             /\ tasks'[t].pc # "final"
             /\ conversationHistory' = conversationHistory]_vars

\* the AI_STATE_GENERATING updates sent for message mid
GeneratingCount(mid) ==
    Count(Indicator("AI_STATE_GENERATING", mid, "processMessageWithGemini"))

\* C14: once a stop event has aborted the active operations of a message, at
\* any point of its processing, also during the web search between two
\* rounds, no further completion is started and no AI_STATE_GENERATING update
\* is sent for that message.
C14_StopReachesLaterRounds ==
    [][\A m \in stopped :
          /\ GeneratingCount(m)' = GeneratingCount(m)
          /\ \A t \in Tasks :
                 (tasks[t].mid = m /\ tasks'[t].pc = "create")
                 => (tasks[t].pc = "create" \/ IsAborted(t))]_vars

\* the requests handleToolCalls was given: the slots that hold a request
Requests(pending) == SelectSeq(pending, LAMBDA c : c.present)

\* C15: when the round that follows handleToolCalls starts, the history ends
\* with the assistant turn that carries the requests, followed by exactly one
\* tool turn per request, in order, each with the id of its request; and
\* handleToolCalls has thrown nothing.
C15_OneResultPerRequest ==
    \A t \in Tasks :
        /\ (tasks[t].pc = "generating" /\ tasks[t].round >= 1)
           => LET reqs == Requests(tasks[t].pendingToolCalls)
                  n == Len(reqs)
                  h == conversationHistory
                  k == Len(h) - n
              IN  /\ k >= 1
                  /\ h[k].role = "assistant"
                  /\ h[k].tool_calls = tasks[t].pendingToolCalls
                  /\ \A i \in 1 .. n :
                         /\ h[k + i].role = "tool"
                         /\ h[k + i].tool_call_id = reqs[i].id
        /\ (\A c \in SeqSet(tasks[t].pendingToolCalls) : c.present)
           => tasks[t].error # TypeError

\* the controllers of the active list that belong to message mid
ControllersOf(mid) ==
    {i \in 1 .. Len(activeStreamControllers) :
        \E t \in Tasks : tasks[t].mid = mid /\ activeStreamControllers[i][1] = t}

\* C16: while no stop event and no dispose has interfered, the active list
\* holds at most one controller per placeholder message, also while a later
\* round of the same message runs.
C16_OneControllerPerMessage ==
    (stopped = {} /\ disposeCalls = 0)
    => \A m \in 1 .. Len(messages) : Cardinality(ControllersOf(m)) <= 1

\* no invocation of processMessageWithGemini is in progress
NoneInProgress == \A t \in Tasks : tasks[t].pc \in {"idle", "sendMessage", "thinking", "done"}

\* C17: every controller that processMessageWithGemini registers is removed
\* when the invocation ends, by completion, error or cancellation: while no
\* invocation is in progress the active list is empty; and the removal of a
\* controller that stop or dispose already removed changes nothing.
C17_ControllersRetired ==
    /\ [](NoneInProgress => activeStreamControllers = <<>>)
    /\ [][\A t \in Tasks :
            ( /\ tasks'[t].pc = "done" /\ tasks[t].pc # "done"
              /\ SeqSet(tasks[t].ctrls) \cap SeqSet(activeStreamControllers) = {} )
            => activeStreamControllers' = activeStreamControllers]_vars

\* a generation of two rounds has completed, and both its controllers are
\* gone from the list
C17_Witness ==
    /\ activeStreamControllers = <<>>
    /\ \E t \in Tasks :
           /\ tasks[t].pc = "done"
           /\ tasks[t].round = 1
           /\ tasks[t].outcome = "completed"

\* C18: every ai_indicator.update and ai_indicator.clear event sent carries
\* the cid and the id of a placeholder message that handleMessage created;
\* none carries an id taken from elsewhere, such as the id of an inbound stop
\* event.
C18_EventsTargetPlaceholders ==
    \A e \in BagToSet(events) :
        /\ e.cid = Cid
        /\ e.message_id \in 1 .. Len(messages)

\* ---------------------------------------------------------------- fairness
\* Every awaited call settles: a suspended handler is resumed.
SpecFair == Spec /\ WF_vars(TaskNext) /\ WF_vars(DisposeResume)

ClearCount(mid) ==
    Count(Clear(mid, "processMessageWithGemini")) + Count(Clear(mid, "handleStopGenerating"))

\* C19: every message for which AI_STATE_THINKING was sent is eventually
\* followed by an ai_indicator.clear or an AI_STATE_ERROR update for the same
\* placeholder, whether its generation completes, fails or is aborted by stop
\* or dispose.
C19_ThinkingLeadsToClearOrError ==
    \A m \in 1 .. MaxMsgs :
        (Count(Indicator("AI_STATE_THINKING", m, "handleMessage")) > 0)
        ~> (ClearCount(m) > 0 \/ ErrorCount(m) > 0)

\* the kind of a search result: an error payload or the provider's payload
Kind(text) == IF "error" \in PayloadKeys(text) THEN "error" ELSE "payload"

\* C20: for every combination of key, transport and response status,
\* OpenAIResposnseHandler.performWebSearch returns the same kind of result as
\* OpenAIAgent.performWebSearch: the provider payload for a response that is
\* ok, an error payload for one that is not.
C20_SearchImplementationsAgree ==
    \A transportOk, responseOk \in BOOLEAN :
        LET byAgent == performWebSearch(tavilyKey, transportOk, responseOk)
            byHandler == handlerPerformWebSearch(tavilyKey, transportOk, responseOk)
        IN  /\ Kind(byHandler) = Kind(byAgent)
            /\ (tavilyKey /\ transportOk)
               => Kind(byHandler) = IF responseOk THEN "payload" ELSE "error"

\* the ai_indicator.clear events the stop handler of the handler has sent
HandlerStopClears ==
    CopiesIn(Clear(HandlerMessageId, "handler.handleStopGenerating"), handler.sent)

====
